---- MODULE Spec2Model ----
(***************************************************************************)
(* Model of webscrapping.py: a script that creates the ca_cve table, GETs  *)
(* an RSS feed, and for every item that is not yet stored GETs its detail  *)
(* page, extracts a record and inserts it into the SQLite table.           *)
(*                                                                         *)
(* Text is modelled as sequences of one-character strings, so that the     *)
(* regular expressions and string operations of the script are computed.   *)
(* The patterns are modelled over the ASCII characters listed below.       *)
(***************************************************************************)
EXTENDS Integers, Sequences, FiniteSets, TLC

(* ------------------------------ bounds -------------------------------- *)
\* longest feed document (number of <item> elements)
MaxFeed == 2
\* invocations of the script per process in the sequential specification
MaxRuns == 2
\* longest feed document when two processes run the script concurrently
MaxConcFeed == 1
\* longest feed document of the runs over the wider set of titles
MaxTitleFeed == 1

(* --------------------------- character classes ------------------------ *)
Digits == {"0","1","2","3","4","5","6","7","8","9"}
Letters ==
  {"a","b","c","d","e","f","g","h","i","j","k","l","m","n","o","p","q","r",
   "s","t","u","v","w","x","y","z","A","B","C","D","E","F","G","H","I","J",
   "K","L","M","N","O","P","Q","R","S","T","U","V","W","X","Y","Z"}
\* \d, \w and \s of Python's re, and the characters str.strip() removes
IsDigit(c) == c \in Digits
IsWord(c) == c \in Letters \cup Digits \cup {"_"}
IsSpace(c) == c \in {" ", "\n", "\t", "\r", "\f"}

SetMin(S) == CHOOSE x \in S : \A y \in S : x <= y
SetMax(S) == CHOOSE x \in S : \A y \in S : x >= y

\* the literal lit occurs in s at position i
IsPrefixAt(lit, s, i) ==
  /\ i >= 1
  /\ i + Len(lit) - 1 <= Len(s)
  /\ \A k \in 1..Len(lit) : s[i + k - 1] = lit[k]

\* length of the longest run of digits of s that starts at position i (greedy \d*)
DigitRun(s, i) ==
  SetMax({n \in 0..(Len(s) - i + 1) : \A k \in i..(i + n - 1) : IsDigit(s[k])} \cup {0})

\* first position >= i of s that holds no whitespace (greedy \s*); Len(s)+1 if none
SkipSpace(s, i) ==
  SetMin({j \in i..(Len(s) + 1) : j = Len(s) + 1 \/ ~IsSpace(s[j])} \cup {Len(s) + 1})

(* ------------------------------ literals ------------------------------ *)
\* Python's None, as a value no text equals
NoneVal == <<"<None>">>
\* 'N/A'
NA == <<"N","/","A">>
\* 'Description not available.'
DescFallback ==
  <<"D","e","s","c","r","i","p","t","i","o","n"," ","n","o","t"," ",
    "a","v","a","i","l","a","b","l","e",".">>
LitCve == <<"C","V","E","-">>
LitSev == <<"S","e","v","e","r","i","t","y",":">>
LitSep == <<"-"," ">>

(* ---------------- re.search(r'CVE-\d{4}-\d{4,}', title) ---------------- *)
\* the pattern matches at position i of s
CveMatchAt(s, i) ==
  /\ IsPrefixAt(LitCve, s, i)
  /\ i + 8 <= Len(s)
  /\ \A k \in (i + 4)..(i + 7) : IsDigit(s[k])
  /\ s[i + 8] = "-"
  /\ DigitRun(s, i + 9) >= 4

\* the search as it would be with the pattern CVE-\d{4}-\d{4}
ReSearchCveFourDigits(title) ==
  LET starts == {i \in 1..Len(title) : CveMatchAt(title, i)}
  IN IF starts = {} THEN NoneVal
     ELSE SubSeq(title, SetMin(starts), SetMin(starts) + 12)

\* cve_number_match.group(), or NoneVal when re.search returns None
ReSearchCve(title) ==
  LET starts == {i \in 1..Len(title) : CveMatchAt(title, i)}
  IN IF starts = {} THEN NoneVal
     ELSE LET i == SetMin(starts)
          IN SubSeq(title, i, i + 8 + DigitRun(title, i + 9))

\* cve_number of line 110
CveNumber(title) ==
  IF ReSearchCve(title) # NoneVal THEN ReSearchCve(title) ELSE NA

\* cve_name of line 134: title.split('- ', 1)[1] if '- ' in title else 'N/A'
CveName(title) ==
  LET at == {i \in 1..Len(title) : IsPrefixAt(LitSep, title, i)}
  IN IF at = {} THEN NA
     ELSE SubSeq(title, SetMin(at) + Len(LitSep), Len(title))

(* ------------------------- description clean-up ------------------------ *)
\* str.strip()
Strip(s) ==
  LET keep == {i \in 1..Len(s) : ~IsSpace(s[i])}
  IN IF keep = {} THEN <<>> ELSE SubSeq(s, SetMin(keep), SetMax(keep))

\* str.replace('\n', ' ')
ReplaceNewline(s) == [i \in 1..Len(s) |-> IF s[i] = "\n" THEN " " ELSE s[i]]

\* the character references html.unescape is modelled for, longest first:
\* three named ones, with and without ';', and the numeric one of '|'
Entities ==
  << <<(<<"&","a","m","p",";">>), "&">>, <<(<<"&","a","m","p">>), "&">>,
     <<(<<"&","l","t",";">>), "<">>,     <<(<<"&","l","t">>), "<">>,
     <<(<<"&","g","t",";">>), ">">>,     <<(<<"&","g","t">>), ">">>,
     <<(<<"&","#","1","2","4",";">>), "|">> >>

RECURSIVE UnescapeFrom(_, _)
UnescapeFrom(s, i) ==
  IF i > Len(s) THEN <<>>
  ELSE LET hits == {e \in 1..Len(Entities) : IsPrefixAt(Entities[e][1], s, i)}
       IN IF hits = {} THEN <<s[i]>> \o UnescapeFrom(s, i + 1)
          ELSE LET e == SetMin(hits)
               IN <<Entities[e][2]>> \o UnescapeFrom(s, i + Len(Entities[e][1]))

\* html.unescape
HtmlUnescape(s) == UnescapeFrom(s, 1)

\* lines 124-125, from the text of the cell that follows the 'Description' cell
CleanDescription(text) == Strip(ReplaceNewline(HtmlUnescape(Strip(text))))

(* ---- re.search(r'Severity:\s*(\d+(\.\d+)?)\s*\|\s*(\w+)', description) ---- *)
\* group(1) of the match that starts at position i of s, or NoneVal
SevGroupAt(s, i) ==
  IF ~IsPrefixAt(LitSev, s, i) THEN NoneVal
  ELSE LET b == SkipSpace(s, i + Len(LitSev))
           c == b + DigitRun(s, b)
           frac == /\ c <= Len(s)
                   /\ s[c] = "."
                   /\ DigitRun(s, c + 1) >= 1
           d == IF frac THEN c + 1 + DigitRun(s, c + 1) ELSE c
           e == SkipSpace(s, d)
           f == SkipSpace(s, e + 1)
       IN IF /\ c > b
             /\ e <= Len(s)
             /\ s[e] = "|"
             /\ f <= Len(s)
             /\ IsWord(s[f])
          THEN SubSeq(s, b, d - 1)
          ELSE NoneVal

\* severity of lines 129-130
Severity(description) ==
  LET starts == {i \in 1..Len(description) : SevGroupAt(description, i) # NoneVal}
  IN IF starts = {} THEN NoneVal ELSE SevGroupAt(description, SetMin(starts))

(* ------------------------- the outside world -------------------------- *)
\* 'CVE-2024-1234 - Example Flaw'
Title1 ==
  <<"C","V","E","-","2","0","2","4","-","1","2","3","4"," ","-"," ",
    "E","x","a","m","p","l","e"," ","F","l","a","w">>
\* 'CVE-24-1 CVE-2024-1234 CVE-2023-56789- Dup'
Title2 ==
  <<"C","V","E","-","2","4","-","1"," ","C","V","E","-","2","0","2","4","-",
    "1","2","3","4"," ","C","V","E","-","2","0","2","3","-","5","6","7","8","9",
    "-"," ","D","u","p">>
\* 'No id'
Title3 == <<"N","o"," ","i","d">>
\* 'CVE-2024-123'
Title4 == <<"C","V","E","-","2","0","2","4","-","1","2","3">>
\* 'xCVE-2024-12345678yCVE-2025-0001'
Title5 ==
  <<"x","C","V","E","-","2","0","2","4","-","1","2","3","4","5","6","7","8",
    "y","C","V","E","-","2","0","2","5","-","0","0","0","1">>
\* 'CVE-CVE-2023-0001- x'
Title6 ==
  <<"C","V","E","-","C","V","E","-","2","0","2","3","-","0","0","0","1","-",
    " ","x">>

\* the <item> elements a feed document is made of: title, link, pubDate
Entries ==
  { [title |-> Title1, link |-> "link1", pubDate |-> "date1"],
    [title |-> Title2, link |-> "link2", pubDate |-> "date2"],
    [title |-> Title3, link |-> "link3", pubDate |-> "date3"] }

\* further <item> elements: a tail of three digits, an identifier inside other
\* text with a long tail and a second identifier after it, a repeated prefix
MoreEntries ==
  { [title |-> Title4, link |-> "link4", pubDate |-> "date4"],
    [title |-> Title5, link |-> "link5", pubDate |-> "date5"],
    [title |-> Title6, link |-> "link6", pubDate |-> "date6"] }
AllEntries == Entries \cup MoreEntries

RECURSIVE SeqsUpTo(_, _)
SeqsUpTo(S, n) ==
  IF n = 0 THEN {<<>>}
  ELSE LET shorter == SeqsUpTo(S, n - 1)
       IN shorter \cup {Append(q, e) : q \in shorter, e \in S}

\* the feed documents the server may serve
Feeds == SeqsUpTo(Entries, MaxFeed)
\* feed documents with up to two different entries whose titles have no identifier
UnmatchedFeeds ==
  SeqsUpTo({e \in AllEntries : e.title \in {Title1, Title3, Title4}}, MaxFeed)
\* short feed documents over all the entries
TitleFeeds == SeqsUpTo(AllEntries, MaxTitleFeed)

\* 'Severity: 7.5 | High. Some details.'
Text1 ==
  <<"S","e","v","e","r","i","t","y",":"," ","7",".","5"," ","|"," ",
    "H","i","g","h","."," ","S","o","m","e"," ","d","e","t","a","i","l","s",".">>
\* ' a&amp;b\nc '
Text2 == <<" ","a","&","a","m","p",";","b","\n","c"," ">>

\* 'Severity: 3 &#124; Low. Severity: 9.25|b'
Text3 ==
  <<"S","e","v","e","r","i","t","y",":"," ","3"," ","&","#","1","2","4",";",
    " ","L","o","w","."," ","S","e","v","e","r","i","t","y",":"," ","9",".",
    "2","5","|","b">>

\* detail pages: whether a <td>Description</td> cell is there, whether a <td>
\* follows it, and that cell's text
Pages ==
  { [desc |-> FALSE, sib |-> FALSE, text |-> <<>>],
    [desc |-> TRUE,  sib |-> FALSE, text |-> <<>>],
    [desc |-> TRUE,  sib |-> TRUE,  text |-> Text1],
    [desc |-> TRUE,  sib |-> TRUE,  text |-> Text2],
    [desc |-> TRUE,  sib |-> TRUE,  text |-> Text3] }

\* outcome of a GET: an answer with a 2xx status, no answer (connection error,
\* timeout), or an answer with another status
HttpOutcomes == {"ok", "neterr", "status"}
\* outcome of a database call: it works, sqlite3.connect raises, or the
\* statement raises sqlite3.Error for a reason other than the data
DbOutcomes == {"ok", "noconn", "sqlerr"}

(* ------------------------------- state -------------------------------- *)
VARIABLES
  feed,         \* the feed document the server serves
  tableExists,  \* the table ca_cve exists in the database file
  store,        \* the rows of ca_cve
  pc,           \* where each process is in the script
  runs,         \* invocations of the script started by each process
  tableRet,     \* what create_cve_table returned in this invocation
  items,        \* items of fetch_and_process_cve
  idx,          \* position of the for loop in items
  cve_number,   \* cve_number of the current item
  cve_page_soup,\* the parsed detail page of the current item
  cve_details,  \* cve_details of the current item
  last,         \* the last call made: its kind, whether the database or the
                \* server did its part (ok), and whether the call returned
                \* True or, for a GET and the parsing after it, did not raise (res)
  did,          \* indices of items by the calls made for them in this invocation
  exc,          \* the except clause that ended fetch_and_process_cve, if any
  store0,       \* the rows when fetch_and_process_cve was entered
  inserts,      \* successful inserts so far, by cve_number
  failed        \* a database call or a GET of this invocation did not work

vars ==
  <<feed, tableExists, store, pc, runs, tableRet, items, idx, cve_number,
    cve_page_soup, cve_details, last, did, exc, store0, inserts, failed>>

\* the processes that may run the script against the same database file
Procs == {1, 2}

\* every cve_number an entry can yield
Numbers == {CveNumber(e.title) : e \in AllEntries}

NoDetails ==
  [cve_number |-> <<>>, cve_name |-> <<>>, cve_description |-> <<>>,
   cve_pubdate |-> "", cve_link |-> "", cve_severity |-> NoneVal]

\* no detail page parsed
NoPage == [desc |-> FALSE, sib |-> FALSE, text |-> NoneVal]

NoCall == [op |-> "none", ok |-> TRUE, res |-> FALSE]
NoCalls ==
  [exists |-> {}, get |-> {}, insert |-> {}, skipped |-> {}, processed |-> {}]

\* the cve_number values of the rows
Keys(rows) == {r.cve_number : r \in rows}

(* --------------------------- database calls --------------------------- *)
\* get_db_connection: the connection is not None
GetDbConnection(db) == db # "noconn"

\* create_cve_table: its return value and whether the table exists afterwards
CreateCveTable(db, tbl) ==
  IF ~GetDbConnection(db) THEN [ret |-> FALSE, table |-> tbl]
  ELSE IF db = "sqlerr" THEN [ret |-> FALSE, table |-> tbl]
  ELSE [ret |-> TRUE, table |-> TRUE]

\* insert_cve_to_db as it would be had the table no PRIMARY KEY
InsertWithoutKey(db, tbl, rows, details) ==
  IF db # "ok" \/ ~tbl THEN [ret |-> FALSE, rows |-> rows]
  ELSE [ret |-> TRUE, rows |-> rows \cup {details}]

\* insert_cve_to_db as it would be with INSERT OR REPLACE
InsertOrReplace(db, tbl, rows, details) ==
  IF db # "ok" \/ ~tbl THEN [ret |-> FALSE, rows |-> rows]
  ELSE [ret |-> TRUE,
        rows |-> {r \in rows : r.cve_number # details.cve_number} \cup {details}]

\* insert_cve_to_db: its return value and the rows afterwards. The INSERT raises
\* sqlite3.Error when the table is missing and when the PRIMARY KEY cve_number
\* is already there; "with conn" then rolls back.
InsertCveToDb(db, tbl, rows, details) ==
  IF ~GetDbConnection(db) THEN [ret |-> FALSE, rows |-> rows]
  ELSE IF db = "sqlerr" \/ ~tbl THEN [ret |-> FALSE, rows |-> rows]
  ELSE IF details.cve_number \in Keys(rows) THEN [ret |-> FALSE, rows |-> rows]
  ELSE [ret |-> TRUE, rows |-> rows \cup {details}]

\* cve_exists as it would be with a query that selects nothing
CveExistsFindsNothing(db, tbl, rows, number) == FALSE

\* cve_exists as it would be returning True from its except clause
CveExistsFailsClosed(db, tbl, rows, number) ==
  IF db # "ok" \/ ~tbl THEN TRUE ELSE number \in Keys(rows)

\* cve_exists: its return value
CveExists(db, tbl, rows, number) ==
  IF ~GetDbConnection(db) THEN FALSE
  ELSE IF db = "sqlerr" \/ ~tbl THEN FALSE
  ELSE number \in Keys(rows)

(* ------------------------------ HTTP calls ---------------------------- *)
\* requests.get raises (a RequestException) when there is no answer
GetRaises(http) == http = "neterr"
\* the status check as it would be with raise_for_status() left out
StatusIgnored(http) == FALSE

\* response.raise_for_status() raises (a RequestException) on a non-2xx answer
RaiseForStatus(http) == http = "status"

(* ----------------------------- extraction ----------------------------- *)
\* line 124 raises AttributeError: find_next_sibling('td') returned None
ExtractRaises(page) == page.desc /\ ~page.sib

\* clean_description as it would be with an empty text in the else branch
DescriptionEmptyFallback(page) ==
  IF page.desc THEN CleanDescription(page.text) ELSE <<>>

\* clean_description of lines 122-127
Description(page) ==
  IF page.desc THEN CleanDescription(page.text) ELSE DescFallback

\* cve_details as it would be with the severity searched in the cell's text
\* as the page gives it
DetailsSeverityFromPageText(entry, page) ==
  [cve_number      |-> CveNumber(entry.title),
   cve_name        |-> CveName(entry.title),
   cve_description |-> Description(page),
   cve_pubdate     |-> entry.pubDate,
   cve_link        |-> entry.link,
   cve_severity    |-> IF page.desc THEN Severity(page.text)
                       ELSE Severity(Description(page))]

\* cve_details of lines 132-139
Details(entry, page) ==
  [cve_number      |-> CveNumber(entry.title),
   cve_name        |-> CveName(entry.title),
   cve_description |-> Description(page),
   cve_pubdate     |-> entry.pubDate,
   cve_link        |-> entry.link,
   cve_severity    |-> Severity(Description(page))]

\* the two derivations above for every entry and page of the model, computed once
NumberOf == [e \in AllEntries |-> CveNumber(e.title)]
DetailsOf == [e \in AllEntries |-> [page \in Pages |-> Details(e, page)]]

(* ------------------------------- steps -------------------------------- *)
\* the script has not been started: an empty database file
NotStarted ==
  /\ tableExists = FALSE
  /\ store = {}
  /\ pc = [p \in Procs |-> "init"]
  /\ runs = [p \in Procs |-> 1]
  /\ tableRet = [p \in Procs |-> "unset"]
  /\ items = [p \in Procs |-> <<>>]
  /\ idx = [p \in Procs |-> 0]
  /\ cve_number = [p \in Procs |-> <<>>]
  /\ cve_page_soup = [p \in Procs |-> NoPage]
  /\ cve_details = [p \in Procs |-> NoDetails]
  /\ last = [p \in Procs |-> NoCall]
  /\ did = [p \in Procs |-> NoCalls]
  /\ exc = [p \in Procs |-> "none"]
  /\ store0 = [p \in Procs |-> {}]
  /\ inserts = [n \in Numbers |-> 0]
  /\ failed = [p \in Procs |-> FALSE]

Init == feed \in Feeds /\ NotStarted

\* line 153: create_cve_table(); its return value is not looked at
CreateTable(p) ==
  /\ pc[p] = "init"
  /\ \E db \in DbOutcomes :
       LET r == CreateCveTable(db, tableExists)
       IN /\ tableExists' = r.table
          /\ tableRet' = [tableRet EXCEPT ![p] = IF r.ret THEN "true" ELSE "false"]
          /\ last' = [last EXCEPT ![p] = [op |-> "table", ok |-> db = "ok", res |-> r.ret]]
          /\ failed' = [failed EXCEPT ![p] = @ \/ db # "ok"]
  /\ pc' = [pc EXCEPT ![p] = "feed"]
  /\ UNCHANGED <<feed, store, runs, items, idx, cve_number, cve_page_soup,
                 cve_details, did, exc, store0, inserts>>

\* the feed step as it would be were the items taken from the last to the first
FetchFeedLastFirst(p) ==
  /\ pc[p] = "feed"
  /\ \E http \in HttpOutcomes :
       /\ IF GetRaises(http) \/ RaiseForStatus(http)
          THEN /\ pc' = [pc EXCEPT ![p] = "done"]
               /\ exc' = [exc EXCEPT ![p] = "request"]
               /\ last' = [last EXCEPT ![p] = [op |-> "feed", ok |-> FALSE, res |-> FALSE]]
               /\ UNCHANGED <<items, idx>>
          ELSE /\ pc' = [pc EXCEPT ![p] = "loop"]
               /\ items' = [items EXCEPT ![p] =
                            [i \in 1..Len(feed) |-> feed[Len(feed) + 1 - i]]]
               /\ idx' = [idx EXCEPT ![p] = 1]
               /\ last' = [last EXCEPT ![p] = [op |-> "feed", ok |-> http = "ok", res |-> TRUE]]
               /\ UNCHANGED exc
       /\ failed' = [failed EXCEPT ![p] = @ \/ http # "ok"]
  /\ store0' = [store0 EXCEPT ![p] = store]
  /\ UNCHANGED <<feed, tableExists, store, runs, tableRet, cve_number,
                 cve_page_soup, cve_details, did, inserts>>

\* lines 98-102: GET the feed and parse its items
FetchFeed(p) ==
  /\ pc[p] = "feed"
  /\ \E http \in HttpOutcomes :
       /\ IF GetRaises(http) \/ RaiseForStatus(http)
          THEN /\ pc' = [pc EXCEPT ![p] = "done"]
               /\ exc' = [exc EXCEPT ![p] = "request"]
               /\ last' = [last EXCEPT ![p] = [op |-> "feed", ok |-> FALSE, res |-> FALSE]]
               /\ UNCHANGED <<items, idx>>
          ELSE /\ pc' = [pc EXCEPT ![p] = "loop"]
               /\ items' = [items EXCEPT ![p] = feed]
               /\ idx' = [idx EXCEPT ![p] = 1]
               /\ last' = [last EXCEPT ![p] = [op |-> "feed", ok |-> http = "ok", res |-> TRUE]]
               /\ UNCHANGED exc
       /\ failed' = [failed EXCEPT ![p] = @ \/ http # "ok"]
  /\ store0' = [store0 EXCEPT ![p] = store]
  /\ UNCHANGED <<feed, tableExists, store, runs, tableRet, cve_number,
                 cve_page_soup, cve_details, did, inserts>>

\* line 104: the for loop is exhausted and the function returns
LoopExit(p) ==
  /\ pc[p] = "loop"
  /\ idx[p] > Len(items[p])
  /\ pc' = [pc EXCEPT ![p] = "done"]
  /\ UNCHANGED <<feed, tableExists, store, runs, tableRet, items, idx, cve_number,
                 cve_page_soup, cve_details, last, did, exc, store0, inserts, failed>>

\* lines 104-114: take the next item, derive cve_number, ask cve_exists
CheckExists(p) ==
  /\ pc[p] = "loop"
  /\ idx[p] <= Len(items[p])
  /\ \E db \in DbOutcomes :
       LET number == NumberOf[items[p][idx[p]]]
           found == CveExists(db, tableExists, store, number)
       IN /\ cve_number' = [cve_number EXCEPT ![p] = number]
          /\ last' = [last EXCEPT ![p] = [op |-> "exists", ok |-> db = "ok" /\ tableExists, res |-> found]]
          /\ failed' = [failed EXCEPT ![p] = @ \/ ~(db = "ok" /\ tableExists)]
          /\ IF found
             THEN /\ idx' = [idx EXCEPT ![p] = @ + 1]
                  /\ did' = [did EXCEPT ![p].exists = @ \cup {idx[p]},
                                        ![p].skipped = @ \cup {idx[p]}]
                  /\ UNCHANGED pc
             ELSE /\ pc' = [pc EXCEPT ![p] = "detail"]
                  /\ did' = [did EXCEPT ![p].exists = @ \cup {idx[p]}]
                  /\ UNCHANGED idx
  /\ UNCHANGED <<feed, tableExists, store, runs, tableRet, items, cve_page_soup,
                 cve_details, exc, store0, inserts>>

\* lines 117-139: GET the detail page and build cve_details
FetchDetail(p) ==
  /\ pc[p] = "detail"
  /\ \E http \in HttpOutcomes, page \in Pages :
       /\ IF GetRaises(http) \/ RaiseForStatus(http)
          THEN /\ pc' = [pc EXCEPT ![p] = "done"]
               /\ exc' = [exc EXCEPT ![p] = "request"]
               /\ last' = [last EXCEPT ![p] = [op |-> "get", ok |-> FALSE, res |-> FALSE]]
               /\ UNCHANGED <<cve_page_soup, cve_details>>
          ELSE IF ExtractRaises(page)
          THEN /\ pc' = [pc EXCEPT ![p] = "done"]
               /\ exc' = [exc EXCEPT ![p] = "other"]
               /\ last' = [last EXCEPT ![p] = [op |-> "get", ok |-> http = "ok", res |-> FALSE]]
               /\ cve_page_soup' = [cve_page_soup EXCEPT ![p] = page]
               /\ UNCHANGED cve_details
          ELSE /\ pc' = [pc EXCEPT ![p] = "insert"]
               /\ cve_page_soup' = [cve_page_soup EXCEPT ![p] = page]
               /\ cve_details' =
                    [cve_details EXCEPT ![p] =
                       [DetailsOf[items[p][idx[p]]][page] EXCEPT !.cve_number = cve_number[p]]]
               /\ last' = [last EXCEPT ![p] = [op |-> "get", ok |-> http = "ok", res |-> TRUE]]
               /\ UNCHANGED exc
       /\ failed' = [failed EXCEPT ![p] = @ \/ http # "ok"]
  /\ did' = [did EXCEPT ![p].get = @ \cup {idx[p]}]
  /\ UNCHANGED <<feed, tableExists, store, runs, tableRet, items, idx, cve_number,
                 store0, inserts>>

\* the insert step as it would be if a failed insert were tried again: the loop
\* stays at the item and handles it once more
InsertRetriesOnFailure(p) ==
  /\ pc[p] = "insert"
  /\ \E db \in DbOutcomes :
       LET r == InsertCveToDb(db, tableExists, store, cve_details[p])
           n == cve_details[p].cve_number
       IN /\ store' = r.rows
          /\ last' = [last EXCEPT ![p] = [op |-> "insert", ok |-> db = "ok" /\ tableExists, res |-> r.ret]]
          /\ did' = [did EXCEPT ![p].insert = @ \cup {idx[p]},
                                ![p].processed = IF r.ret THEN @ \cup {idx[p]} ELSE @]
          /\ inserts' = IF r.ret THEN [inserts EXCEPT ![n] = @ + 1] ELSE inserts
          /\ failed' = [failed EXCEPT ![p] = @ \/ ~(db = "ok" /\ tableExists)]
          /\ idx' = [idx EXCEPT ![p] = IF r.ret THEN @ + 1 ELSE @]
  /\ pc' = [pc EXCEPT ![p] = "loop"]
  /\ cve_page_soup' = [cve_page_soup EXCEPT ![p] = NoPage]
  /\ cve_details' = [cve_details EXCEPT ![p] = NoDetails]
  /\ UNCHANGED <<feed, tableExists, runs, tableRet, items, cve_number, exc, store0>>

\* lines 141-142: insert_cve_to_db(cve_details), then the next item
Insert(p) ==
  /\ pc[p] = "insert"
  /\ \E db \in DbOutcomes :
       LET r == InsertCveToDb(db, tableExists, store, cve_details[p])
           n == cve_details[p].cve_number
       IN /\ store' = r.rows
          /\ last' = [last EXCEPT ![p] = [op |-> "insert", ok |-> db = "ok" /\ tableExists, res |-> r.ret]]
          /\ did' = [did EXCEPT ![p].insert = @ \cup {idx[p]},
                                ![p].processed = IF r.ret THEN @ \cup {idx[p]} ELSE @]
          /\ inserts' = IF r.ret THEN [inserts EXCEPT ![n] = @ + 1] ELSE inserts
          /\ failed' = [failed EXCEPT ![p] = @ \/ ~(db = "ok" /\ tableExists)]
  /\ pc' = [pc EXCEPT ![p] = "loop"]
  /\ idx' = [idx EXCEPT ![p] = @ + 1]
  /\ cve_page_soup' = [cve_page_soup EXCEPT ![p] = NoPage]
  /\ cve_details' = [cve_details EXCEPT ![p] = NoDetails]
  /\ UNCHANGED <<feed, tableExists, runs, tableRet, items, cve_number, exc, store0>>

\* the script is started again after it ended
Restart(p) ==
  /\ pc[p] = "done"
  /\ runs[p] < MaxRuns
  /\ runs' = [runs EXCEPT ![p] = @ + 1]
  /\ pc' = [pc EXCEPT ![p] = "init"]
  /\ tableRet' = [tableRet EXCEPT ![p] = "unset"]
  /\ items' = [items EXCEPT ![p] = <<>>]
  /\ idx' = [idx EXCEPT ![p] = 0]
  /\ cve_number' = [cve_number EXCEPT ![p] = <<>>]
  /\ cve_page_soup' = [cve_page_soup EXCEPT ![p] = NoPage]
  /\ cve_details' = [cve_details EXCEPT ![p] = NoDetails]
  /\ failed' = [failed EXCEPT ![p] = FALSE]
  /\ last' = [last EXCEPT ![p] = NoCall]
  /\ did' = [did EXCEPT ![p] = NoCalls]
  /\ exc' = [exc EXCEPT ![p] = "none"]
  /\ store0' = [store0 EXCEPT ![p] = {}]
  /\ UNCHANGED <<feed, tableExists, store, inserts>>

\* one step of the script run by process p
Step(p) ==
  \/ CreateTable(p)
  \/ FetchFeed(p)
  \/ LoopExit(p)
  \/ CheckExists(p)
  \/ FetchDetail(p)
  \/ Insert(p)

\* one process runs the script, again and again
Next == Step(1) \/ Restart(1)
Spec == Init /\ [][Next]_vars

\* two processes run the script once each against the same database file
InitConc == Init /\ Len(feed) <= MaxConcFeed
NextConc == \E p \in Procs : Step(p)
SpecConc == InitConc /\ [][NextConc]_vars

\* one process over the wider set of titles
InitTitles == feed \in TitleFeeds /\ NotStarted
SpecTitles == InitTitles /\ [][Next]_vars

\* one process over feeds with entries whose titles have no identifier
InitUnmatched == feed \in UnmatchedFeeds /\ NotStarted
SpecUnmatched == InitUnmatched /\ [][Next]_vars

(* ------------------------------ properties ---------------------------- *)
\* process p is at the head of the loop with an item left
AtEntry(p) == pc[p] = "loop" /\ idx[p] <= Len(items[p])
\* cve_number of the item process p is at
Current(p) == NumberOf[items[p][idx[p]]]
\* the step asks cve_exists for the item process p is at
Checks(p) == AtEntry(p) /\ did'[p].exists # did[p].exists
\* the step skips the item process p is at: no GET, no insert, next item
Skips(p) ==
  /\ pc'[p] = "loop"
  /\ idx'[p] = idx[p] + 1
  /\ idx[p] \in did'[p].skipped
  /\ did'[p].get = did[p].get
  /\ did'[p].insert = did[p].insert
  /\ did'[p].processed = did[p].processed
  /\ store' = store
\* fetch_and_process_cve has ended and every item of its feed was stored before it began
RanOverStored(p) ==
  /\ pc[p] = "done"
  /\ items[p] # <<>>
  /\ \A i \in 1..Len(items[p]) : NumberOf[items[p][i]] \in Keys(store0[p])

C2_RowsUniqueAndKept ==
  /\ [](\A r1, r2 \in store : r1.cve_number = r2.cve_number => r1 = r2)
  /\ [][store \subseteq store']_vars

\* a second run in which an insert was attempted for stored numbers and nothing changed
C2_Witness ==
  /\ runs[1] = 2
  /\ pc[1] = "done"
  /\ did[1].insert # {}
  /\ did[1].processed = {}
  /\ tableExists
  /\ last[1] = [op |-> "insert", ok |-> TRUE, res |-> FALSE]
  /\ store # {}
  /\ store = store0[1]

\* C3 as stated: a failed GET of a detail page does not end the run; the run
\* ends only after the existence check was made for every item.
C3_DetailFailureNotFatal ==
  \A p \in Procs :
    (pc[p] = "done" /\ last[p].op = "get" /\ ~last[p].ok)
      => did[p].exists = 1..Len(items[p])

\* C4: when the GET of the feed fails, the run has ended with no existence
\* check, no detail GET and no insert, and the store is as it was.
C4_FeedFailureEndsRun ==
  \A p \in Procs :
    (last[p].op = "feed" /\ ~last[p].ok)
      => /\ pc[p] = "done"
         /\ did[p] = NoCalls
         /\ items[p] = <<>>
         /\ store = store0[p]

\* the feed has items, the store has rows, and the GET of the feed failed
C4_Witness ==
  /\ last[1].op = "feed"
  /\ ~last[1].ok
  /\ pc[1] = "done"
  /\ feed # <<>>
  /\ store # {}

\* C5 as stated: no detail page is fetched for an item whose cve_number is in
\* the store when the item is reached.
C5_NoFetchWhenStored ==
  \A p \in Procs : pc[p] = "detail" => Current(p) \notin Keys(store)

\* C5 as amended: no detail page is fetched for an item whose cve_number is in
\* the store when the item is reached and whose existence check itself works.
C5_NoFetchWhenFound ==
  \A p \in Procs :
    /\ (pc[p] = "detail" /\ last[p].ok) => Current(p) \notin Keys(store)
    /\ did[p].skipped \cap did[p].get = {}

\* the second of two items was found in the store and passed over without a GET
C5_Witness ==
  /\ pc[1] = "loop"
  /\ idx[1] = 3
  /\ last[1] = [op |-> "exists", ok |-> TRUE, res |-> TRUE]
  /\ 2 \in did[1].skipped
  /\ 2 \notin did[1].get
  /\ NumberOf[items[1][2]] \in Keys(store)

\* C6 as stated: after every detail page that was fetched, whatever its markup,
\* a record is built and the insert is the next call.
C6_ExtractionNeverFails ==
  \A p \in Procs :
    (last[p].op = "get" /\ last[p].ok) => (pc[p] = "insert" /\ exc[p] = "none")

\* C7 as stated: when create_cve_table has failed, fetch_and_process_cve is not
\* executed: the failed call stays the last call of the process.
C7_NoRunWithoutSchema ==
  \A p \in Procs : tableRet[p] = "false" => last[p].op = "table"

\* the step is a call of insert_cve_to_db by process p
Inserts(p) == pc[p] = "insert" /\ pc'[p] # "insert"
\* the step leaves the store alone, reports failure to the loop without raising,
\* does not report the item as processed and moves to the next item
FailsQuietly(p) ==
  /\ store' = store
  /\ inserts' = inserts
  /\ last'[p].op = "insert"
  /\ ~last'[p].res
  /\ idx[p] \notin did'[p].processed
  /\ exc'[p] = "none"
  /\ pc'[p] = "loop"
  /\ idx'[p] = idx[p] + 1

\* C8: an insert of a cve_number that is in the store, and an insert while the
\* database cannot be used, fail quietly.
C8_InsertFailureIsPerItem ==
  [][\A p \in Procs :
       (Inserts(p) /\ (cve_details[p].cve_number \in Keys(store) \/ ~last'[p].ok))
         => FailsQuietly(p)]_vars

\* an insert met its cve_number in the store, and the loop is at the next item
C8_Witness ==
  /\ last[1] = [op |-> "insert", ok |-> TRUE, res |-> FALSE]
  /\ pc[1] = "loop"
  /\ idx[1] = 2
  /\ Len(items[1]) = 2
  /\ NumberOf[items[1][1]] \in Keys(store)
  /\ did[1].processed = {}

\* C9: cve_exists never changes the store and never raises; it returns False
\* when the check itself fails, and otherwise True exactly for the numbers in
\* the store.
C9_ExistsFailsOpen ==
  [][\A p \in Procs :
       Checks(p) =>
         /\ store' = store
         /\ exc'[p] = "none"
         /\ last'[p].op = "exists"
         /\ (~last'[p].ok => ~last'[p].res)
         /\ (last'[p].ok => (last'[p].res <=> Current(p) \in Keys(store)))
         /\ (last'[p].res <=> idx[p] \in did'[p].skipped)]_vars

\* the check failed for a number that is in the store, and the answer was False
C9_Witness ==
  /\ pc[1] = "detail"
  /\ last[1] = [op |-> "exists", ok |-> FALSE, res |-> FALSE]
  /\ Current(1) \in Keys(store)

\* C10: with two processes interleaved, no cve_number is inserted successfully
\* twice; an insert that meets its number in the store fails quietly and the
\* stored row stays.
C10_OneInsertPerNumber ==
  /\ [](\A n \in Numbers :
          /\ inserts[n] <= 1
          /\ Cardinality({r \in store : r.cve_number = n}) = inserts[n])
  /\ [][\A p \in Procs :
          (Inserts(p) /\ cve_details[p].cve_number \in Keys(store))
            => (FailsQuietly(p) /\ store \subseteq store')]_vars

\* both processes called insert for the first item; one insert worked, the other
\* met the row and failed, and that process went on
C10_Witness ==
  \E p, q \in Procs :
    /\ p # q
    /\ 1 \in did[p].processed
    /\ 1 \in did[q].insert \ did[q].processed
    /\ last[q] = [op |-> "insert", ok |-> TRUE, res |-> FALSE]
    /\ pc[q] = "loop"
    /\ idx[q] = 2
    /\ inserts[NumberOf[items[q][1]]] = 1

\* the calls made so far in this invocation for the item at position i
CallsFor(p, i) ==
  {c \in {"exists", "get", "insert"} : i \in did[p][c]}
\* the step is the call c of process p
Calls(p, c) ==
  /\ pc[p] = (IF c = "exists" THEN "loop" ELSE IF c = "get" THEN "detail" ELSE "insert")
  /\ idx[p] <= Len(items[p])
  /\ <<pc[p], idx[p]>> # <<pc'[p], idx'[p]>>
  /\ last'[p].op = c

\* C11: the items are taken in the order of the feed document, one at a time:
\* every call is made for the item the loop is at, the loop never goes back, and
\* for one item the existence check comes first, then the GET of the detail
\* page, then the insert, each at most once; no call is made for a later item
\* before the calls for the earlier ones are over.
C11_OneItemAtATimeInOrder ==
  /\ [](\A p \in Procs :
          /\ pc[p] \in {"loop", "detail", "insert"} => items[p] = feed
          /\ did[p].insert \subseteq did[p].get
          /\ did[p].get \subseteq did[p].exists
          /\ \E k \in 0..Len(items[p]) : did[p].exists = 1..k
          /\ \A i \in did[p].exists : i <= idx[p])
  /\ [][\A p \in Procs : runs'[p] = runs[p] =>
          /\ idx'[p] >= idx[p]
          /\ Calls(p, "exists") =>
               /\ CallsFor(p, idx[p]) = {}
               /\ did'[p].exists = did[p].exists \cup {idx[p]}
          /\ Calls(p, "get") =>
               /\ CallsFor(p, idx[p]) = {"exists"}
               /\ did'[p].get = did[p].get \cup {idx[p]}
          /\ Calls(p, "insert") =>
               /\ CallsFor(p, idx[p]) = {"exists", "get"}
               /\ did'[p].insert = did[p].insert \cup {idx[p]}
          /\ \A c \in {"exists", "get", "insert"} :
               did'[p][c] # did[p][c] => Calls(p, c)]_vars

\* both items of a feed went through the existence check, the GET and the insert
C11_Witness ==
  /\ pc[1] = "done"
  /\ Len(items[1]) = 2
  /\ did[1].exists = {1, 2}
  /\ did[1].get = {1, 2}
  /\ did[1].insert = {1, 2}

\* process p has just fetched and parsed a detail page with no 'Description' cell
GotPageWithoutDescription(p) ==
  /\ last[p].op = "get"
  /\ last[p].ok
  /\ cve_page_soup[p] # NoPage
  /\ ~cve_page_soup[p].desc

\* C12: for a detail page with no 'Description' cell the record built has the
\* description 'Description not available.' and the severity None, and it is
\* handed to the insert, which stores it as it is when the database works and
\* the number is not stored.
C12_DescriptionFallback ==
  /\ [](\A p \in Procs :
          GotPageWithoutDescription(p) =>
            /\ pc[p] = "insert"
            /\ exc[p] = "none"
            /\ cve_details[p].cve_description = DescFallback
            /\ cve_details[p].cve_severity = NoneVal)
  /\ [][\A p \in Procs :
          (Inserts(p) /\ GotPageWithoutDescription(p)) =>
            /\ idx[p] \in did'[p].insert
            /\ (last'[p].ok /\ cve_number[p] \notin Keys(store)) =>
                 /\ last'[p].res
                 /\ \E r \in store' \ store :
                      /\ r.cve_number = cve_number[p]
                      /\ r.cve_link = items[p][idx[p]].link
                      /\ r.cve_description = DescFallback
                      /\ r.cve_severity = NoneVal]_vars

\* a record with the fallback description has just been stored
C12_Witness ==
  /\ last[1] = [op |-> "insert", ok |-> TRUE, res |-> TRUE]
  /\ \E r \in store :
       /\ r.cve_number = cve_number[1]
       /\ r.cve_description = DescFallback
       /\ r.cve_severity = NoneVal

(* ------------------------------- C13 ---------------------------------- *)
\* w is an identifier: 'CVE-', four digits, '-', four or more digits
IsCveId(w) ==
  /\ Len(w) >= 13
  /\ SubSeq(w, 1, 4) = LitCve
  /\ \A k \in 5..8 : w[k] \in Digits
  /\ w[9] = "-"
  /\ \A k \in 10..Len(w) : w[k] \in Digits

\* the first identifier in s: it starts where no identifier starts earlier and
\* it is the longest one starting there; 'N/A' when s holds none
FirstCveId(s) ==
  LET found == {ij \in (1..Len(s)) \X (1..Len(s)) :
                  ij[1] <= ij[2] /\ IsCveId(SubSeq(s, ij[1], ij[2]))}
  IN IF found = {} THEN NA
     ELSE LET first == CHOOSE ij \in found :
                         \A o \in found :
                           ij[1] < o[1] \/ (ij[1] = o[1] /\ ij[2] >= o[2])
          IN SubSeq(s, first[1], first[2])

FirstCveIdOf == [e \in AllEntries |-> FirstCveId(e.title)]

\* C13: the identifier of an entry is the first substring of its title of the
\* form CVE-<4 digits>-<4 or more digits>, or 'N/A' when the title has none,
\* and that value is the one looked up for the skip decision, put into
\* cve_details and stored as cve_number.
C13_NumberIsFirstMatch ==
  /\ [](\A p \in Procs :
          /\ pc[p] \in {"detail", "insert"} =>
                cve_number[p] = FirstCveIdOf[items[p][idx[p]]]
          /\ pc[p] = "insert" =>
                cve_details[p].cve_number = FirstCveIdOf[items[p][idx[p]]])
  /\ [](\A r \in store : \E e \in AllEntries :
          r.cve_link = e.link /\ r.cve_number = FirstCveIdOf[e])
  /\ [][\A p \in Procs :
          /\ Checks(p) =>
                /\ cve_number'[p] = FirstCveIdOf[items[p][idx[p]]]
                /\ last'[p].ok =>
                      (Skips(p) <=> FirstCveIdOf[items[p][idx[p]]] \in Keys(store))
          /\ (Inserts(p) /\ last'[p].res) =>
                \E r \in store' \ store :
                  /\ r.cve_number = FirstCveIdOf[items[p][idx[p]]]
                  /\ r.cve_link = items[p][idx[p]].link]_vars

\* a run over the title with a long identifier inside other text and a second
\* identifier after it has stored the row under the first, whole identifier
C13_Witness ==
  /\ pc[1] = "done"
  /\ last[1] = [op |-> "insert", ok |-> TRUE, res |-> TRUE]
  /\ \E r \in store :
       /\ r.cve_link = "link5"
       /\ Len(r.cve_number) = 17
       /\ r.cve_number = cve_number[1]

(* ------------------------------- C14 ---------------------------------- *)
\* x is a numeric text: digits, or digits '.' digits
IsNumeric(x) ==
  /\ x # <<>>
  /\ \/ \A k \in 1..Len(x) : x[k] \in Digits
     \/ \E dot \in 2..(Len(x) - 1) :
          \A k \in 1..Len(x) : IF k = dot THEN x[k] = "." ELSE x[k] \in Digits

\* only white space at positions a..b of s
AllSpace(s, a, b) == \A k \in a..b : IsSpace(s[k])

\* s has at position i an occurrence of 'Severity: X | label' whose X is s[b..d]:
\* 'Severity:', optional white space, X, optional white space, '|', optional
\* white space, a label of at least one word character
SeverityOccursAt(s, i, b, d) ==
  /\ IsPrefixAt(LitSev, s, i)
  /\ i + Len(LitSev) <= b
  /\ b <= d
  /\ AllSpace(s, i + Len(LitSev), b - 1)
  /\ IsNumeric(SubSeq(s, b, d))
  /\ \E bar \in (d + 1)..Len(s) :
       /\ AllSpace(s, d + 1, bar - 1)
       /\ s[bar] = "|"
       /\ \E label \in (bar + 1)..Len(s) :
            /\ AllSpace(s, bar + 1, label - 1)
            /\ IsWord(s[label])

\* the X of the first occurrence in s, or null when s has no occurrence
FirstSeverity(s) ==
  LET spans == (1..Len(s)) \X (1..Len(s))
      starts == {i \in 1..Len(s) :
                   /\ IsPrefixAt(LitSev, s, i)
                   /\ \E bd \in spans : SeverityOccursAt(s, i, bd[1], bd[2])}
  IN IF starts = {} THEN NoneVal
     ELSE LET i == SetMin(starts)
              bd == CHOOSE x \in spans : SeverityOccursAt(s, i, x[1], x[2])
          IN SubSeq(s, bd[1], bd[2])

FirstSeverityOf ==
  [d \in {Description(page) : page \in Pages} \cup {page.text : page \in Pages}
     |-> FirstSeverity(d)]

\* the scenario's page and the record it is to give
ScenarioPage == [desc |-> TRUE, sib |-> TRUE, text |-> Text1]
ScenarioRecord ==
  [cve_number      |-> <<"C","V","E","-","2","0","2","4","-","1","2","3","4">>,
   cve_name        |-> <<"E","x","a","m","p","l","e"," ","F","l","a","w">>,
   cve_description |-> Text1,
   cve_pubdate     |-> "date1",
   cve_link        |-> "link1",
   cve_severity    |-> <<"7",".","5">>]

\* C14: the severity put into cve_details and stored is the numeric text X of
\* the first 'Severity: X | label' occurrence in the normalized description
\* (the stored cve_description, not the cell's text as the page gives it), and
\* null when the description has no occurrence; the entry titled
\* 'CVE-2024-1234 - Example Flaw' with the description
\* 'Severity: 7.5 | High. Some details.' gives id 'CVE-2024-1234', name
\* 'Example Flaw', severity '7.5' and that description unchanged.
C14_SeverityFromDescription ==
  /\ [](\A p \in Procs : pc[p] = "insert" =>
          /\ cve_details[p].cve_severity =
                FirstSeverityOf[cve_details[p].cve_description]
          /\ (items[p][idx[p]].title = Title1 /\ cve_page_soup[p] = ScenarioPage)
                => cve_details[p] = ScenarioRecord)
  /\ [](\A r \in store :
          r.cve_severity = FirstSeverityOf[r.cve_description])
  /\ [][\A p \in Procs :
          (Inserts(p) /\ last'[p].res /\ cve_details[p] = ScenarioRecord)
            => store' = store \cup {ScenarioRecord}]_vars

\* the scenario's record is stored, and so is a record whose severity is the
\* '3' of its normalized description while the first occurrence in the cell's
\* text as the page gives it has '9.25'
C14_Witness ==
  /\ ScenarioRecord \in store
  /\ \E r \in store :
       /\ r.cve_severity = <<"3">>
       /\ FirstSeverityOf[Text3] = <<"9",".","2","5">>
       /\ FirstSeverityOf[r.cve_description] = <<"3">>

(* ------------------------------- C15 ---------------------------------- *)
\* the title of the item process p is at has no identifier
AtUnmatched(p) == FirstCveIdOf[items[p][idx[p]]] = NA

\* C15: entries whose titles have no identifier share the key 'N/A' and only
\* the first is stored. Once a row with cve_number 'N/A' is stored, an entry
\* without identifier whose existence check works is skipped at that check
\* (no GET, no insert, store unchanged); no GET and no insert is made for such
\* an entry in an invocation whose calls all worked; the store never has two
\* 'N/A' rows and the one it has stays as it is.
C15_OnlyFirstUnmatchedStored ==
  /\ [](Cardinality({r \in store : r.cve_number = NA}) <= 1)
  /\ [][/\ \A r \in store : r.cve_number = NA => r \in store'
        /\ \A p \in Procs :
             /\ (Checks(p) /\ AtUnmatched(p) /\ NA \in Keys(store) /\ last'[p].ok)
                  => Skips(p)
             /\ ((Calls(p, "get") \/ Calls(p, "insert")) /\ AtUnmatched(p)
                   /\ NA \in Keys(store))
                  => failed[p]]_vars

\* the first entry without identifier is stored under 'N/A' and the second,
\* another entry without identifier, has just been skipped at its check
C15_Witness ==
  /\ Len(items[1]) = 2
  /\ items[1][1].title = Title3
  /\ items[1][2].title = Title4
  /\ runs[1] = 1
  /\ did[1].skipped = {2}
  /\ did[1].get = {1}
  /\ last[1] = [op |-> "exists", ok |-> TRUE, res |-> TRUE]
  /\ \E r \in store : r.cve_number = NA /\ r.cve_link = "link3"
  /\ \A r \in store : r.cve_link # "link4"

(* ------------------------------- C16 ---------------------------------- *)
\* the name derived from the title of each entry
NameOf == [e \in AllEntries |-> CveName(e.title)]
\* the places of the feed document whose entry has cve_number n
PlacesOf(n) == {i \in 1..Len(feed) : NumberOf[feed[i]] = n}
\* the first entry of the feed document, in document order, with cve_number n
FirstWith(n) == feed[SetMin(PlacesOf(n))]
\* invocation p got the feed, every call it made so far worked, and n, which
\* two or more entries of the feed have, was not stored when it began
FirstSeenCase(p, n) ==
  /\ items[p] # <<>>
  /\ ~failed[p]
  /\ Cardinality(PlacesOf(n)) >= 2
  /\ n \notin Keys(store0[p])

\* C16: when two or more entries of a feed have the same cve_number, not in
\* the store when the run begins, and the database calls and GETs of the run
\* work, a row stored under that cve_number has the name, pubDate and link of
\* the first of these entries in document order; each later one, when the loop
\* gets to it, is skipped without a GET; and a run that ends without an
\* exception has stored that row and skipped every later one.
C16_FirstSeenWins ==
  /\ [](\A p \in Procs : \A n \in Numbers : FirstSeenCase(p, n) =>
          /\ \A r \in store : r.cve_number = n =>
                /\ r.cve_name = NameOf[FirstWith(n)]
                /\ r.cve_pubdate = FirstWith(n).pubDate
                /\ r.cve_link = FirstWith(n).link
          /\ \A i \in PlacesOf(n) \ {SetMin(PlacesOf(n))} : i \notin did[p].get
          /\ (pc[p] = "done" /\ exc[p] = "none") =>
                /\ n \in Keys(store)
                /\ \A i \in PlacesOf(n) \ {SetMin(PlacesOf(n))} :
                     i \in did[p].skipped)
  /\ [][\A p \in Procs :
          (/\ Checks(p)
           /\ FirstSeenCase(p, NumberOf[feed[idx[p]]])
           /\ ~failed'[p]
           /\ idx[p] # SetMin(PlacesOf(NumberOf[feed[idx[p]]])))
            => Skips(p)]_vars

\* a run over two entries with the same cve_number has ended: the row has the
\* first entry's link and the second entry was skipped
C16_Witness ==
  /\ pc[1] = "done"
  /\ exc[1] = "none"
  /\ ~failed[1]
  /\ runs[1] = 1
  /\ Len(feed) = 2
  /\ feed[1].title = Title1
  /\ feed[2].title = Title2
  /\ did[1].skipped = {2}
  /\ did[1].get = {1}
  /\ \E r \in store : r.cve_link = "link1" /\ r.cve_number = NumberOf[feed[2]]
  /\ \A r \in store : r.cve_link # "link2"

(* ------------------------------- C17 ---------------------------------- *)
\* C17 as stated: rows stored by a run stay in the store, and a later run over
\* the same feed in which no GET and no database call fails ends with the store
\* holding a row for the cve_number of every entry of the feed.
C17_RerunConverges ==
  \A p \in Procs :
    (runs[p] >= 2 /\ pc[p] = "done" /\ ~failed[p]) =>
      /\ store0[p] \subseteq store
      /\ \A i \in 1..Len(feed) : NumberOf[feed[i]] \in Keys(store)
====
